---- MODULE Spec2Model ----
(***************************************************************************)
(* Model of src/utilities/validate_markdown.py: the MarkdownValidator      *)
(* class (read_file, the nine validate_* checks, validate, get_report),    *)
(* validate_single_file, validate_all_files and the --all branch of main.  *)
(*                                                                         *)
(* A line of text is a sequence of one-character strings; a document on    *)
(* disk is the flat character sequence that f.read() returns.  Line        *)
(* numbers are 1-based, as in the messages ("Line {i + 1}: ...").          *)
(***************************************************************************)
EXTENDS Integers, Sequences, FiniteSets, TLC

VARIABLES
    disk,          \* file name -> what open()/read() yields for it
    dir_exists,    \* cheatsheets_dir.exists()
    caller,        \* who called validate(): "validate_single_file" | "validate_all_files"
    pc,            \* position of the program
    file_path,     \* self.file_path of the current validator
    content,       \* self.content
    lines,         \* self.lines
    errors,        \* self.errors
    warnings,      \* self.warnings
    is_valid,      \* value returned by validate() ("none" before it returns)
    md_files,      \* list(cheatsheets_dir.glob("*.md")), in the order glob gave
    todo,          \* what is left of sorted(md_files) in the for loop
    validators,    \* the validators the batch loop has finished with, in order
    total_files,
    passed_files,
    failed_files,
    summary,       \* tuple returned by validate_all_files ("none" before)
    output,        \* what has been printed, in order
    exit_code      \* argument of sys.exit ("none" while running)

vars == <<disk, dir_exists, caller, pc, file_path, content, lines, errors,
          warnings, is_valid, md_files, todo, validators, total_files,
          passed_files, failed_files, summary, output, exit_code>>

batchVars == <<md_files, todo, validators, total_files, passed_files,
               failed_files, summary, exit_code>>

-----------------------------------------------------------------------------
(* Bounds of the model *)

MaxLines == 3        \* lines per document, title / heading / link pools
MaxFenceLines == 4   \* lines per document, code fence pool
MaxBlankLines == 5   \* lines per document, blank line pool
MaxFiles == 3        \* files in the cheatsheets directory

-----------------------------------------------------------------------------
(* Strings *)

NL == "\n"

\* characters str.strip()/rstrip() remove and the regex class \s matches
Whitespace == {" ", "\t", "\r", "\f", NL}

\* the regex class \d
Digits == {"0", "1", "2", "3", "4", "5", "6", "7", "8", "9"}

Min(a, b) == IF a < b THEN a ELSE b

\* number of leading characters of s that belong to the set cs
RECURSIVE LeadingIn(_, _)
LeadingIn(s, cs) ==
    IF s = <<>> \/ Head(s) \notin cs THEN 0 ELSE 1 + LeadingIn(Tail(s), cs)

\* number of trailing characters of s that belong to the set cs
RECURSIVE TrailingIn(_, _)
TrailingIn(s, cs) ==
    IF s = <<>> \/ s[Len(s)] \notin cs THEN 0
    ELSE 1 + TrailingIn(SubSeq(s, 1, Len(s) - 1), cs)

\* str.rstrip()
RStrip(s) == SubSeq(s, 1, Len(s) - TrailingIn(s, Whitespace))

\* str.strip()
Strip(s) ==
    LET r == RStrip(s)
    IN  SubSeq(r, LeadingIn(r, Whitespace) + 1, Len(r))

\* str.startswith(prefix)
StartsWith(s, prefix) ==
    /\ Len(s) >= Len(prefix)
    /\ SubSeq(s, 1, Len(prefix)) = prefix

\* str.split('\n'): cur is the line being collected
RECURSIVE SplitFrom(_, _)
SplitFrom(s, cur) ==
    IF s = <<>> THEN <<cur>>
    ELSE IF Head(s) = NL THEN <<cur>> \o SplitFrom(Tail(s), <<>>)
    ELSE SplitFrom(Tail(s), Append(cur, Head(s)))

Split(s) == SplitFrom(s, <<>>)

\* the text of a file whose lines are ls: the lines separated by '\n'
RECURSIVE Join(_)
Join(ls) ==
    IF Len(ls) = 0 THEN <<>>
    ELSE IF Len(ls) = 1 THEN ls[1]
    ELSE ls[1] \o <<NL>> \o Join(Tail(ls))

\* smallest index >= from at which s holds c, 0 when there is none
RECURSIVE IndexFrom(_, _, _)
IndexFrom(s, c, from) ==
    IF from > Len(s) THEN 0
    ELSE IF s[from] = c THEN from
    ELSE IndexFrom(s, c, from + 1)

\* code point of a character of a file name
Ord(c) ==
    CASE c = "-" -> 45 [] c = "." -> 46 [] c = "B" -> 66
      [] c = "a" -> 97 [] c = "b" -> 98 [] c = "d" -> 100 [] c = "m" -> 109

\* Python's str < str, which Path.__lt__ comes down to within one directory
RECURSIVE StrLess(_, _)
StrLess(a, b) ==
    IF b = <<>> THEN FALSE
    ELSE IF a = <<>> THEN TRUE
    ELSE IF Head(a) # Head(b) THEN Ord(Head(a)) < Ord(Head(b))
    ELSE StrLess(Tail(a), Tail(b))

-----------------------------------------------------------------------------
(* Findings *)

MsgNotFound      == "File not found"
MsgReadError     == "Error reading file"
MsgH1Missing     == "File should start with H1 title (# Title)"
MsgH1Empty       == "H1 title is empty"
MsgNoToc         == "No 'Table of Contents' section found in first 20 lines"
MsgLevelSkipped  == "Heading level skipped"
MsgNoLanguage    == "Code block without language identifier"
MsgUnclosed      == "Unclosed code block"
MsgEmptyLinkText == "Empty link text"
MsgEmptyLinkUrl  == "Empty link URL"
MsgEmptyHeading  == "Empty heading found"
MsgTrailing      == "Trailing whitespace detected"
MsgBlankLines    == "More than 2 consecutive blank lines"
MsgListIndent    == "Inconsistent list indentation (should be multiples of 2 spaces)"

\* one message of self.errors / self.warnings: "Line {line}: {msg}"; line is 0
\* for a message without a line prefix; arg holds the numbers the message
\* formats in, (H{a} -> H{b})
Finding(line, msg, arg) == [line |-> line, msg |-> msg, arg |-> arg]

\* the line numbers, in order, of the findings of fs that carry msg
RECURSIVE LinesOf(_, _)
LinesOf(fs, msg) ==
    IF fs = <<>> THEN <<>>
    ELSE IF Head(fs).msg = msg THEN <<Head(fs).line>> \o LinesOf(Tail(fs), msg)
    ELSE LinesOf(Tail(fs), msg)

\* how many findings of fs carry msg at line n
CountAt(fs, msg, n) ==
    Cardinality({k \in 1..Len(fs) : fs[k].msg = msg /\ fs[k].line = n})

-----------------------------------------------------------------------------
(* Check 1: validate_h1_title *)

\* the for loop from line i on; it breaks at the first line with line.strip()
RECURSIVE h1_scan(_, _)
h1_scan(ls, i) ==
    IF i > Len(ls) THEN <<>>
    ELSE IF Strip(ls[i]) # <<>> THEN
        IF ~StartsWith(ls[i], <<"#", " ">>) THEN <<Finding(i, MsgH1Missing, <<>>)>>
        ELSE IF Strip(ls[i]) = <<"#">> THEN <<Finding(i, MsgH1Empty, <<>>)>>
        ELSE <<>>
    ELSE h1_scan(ls, i + 1)

\* validate_h1_title without its break: every non-blank line is examined
RECURSIVE h1_scan_no_break(_, _)
h1_scan_no_break(ls, i) ==
    IF i > Len(ls) THEN <<>>
    ELSE IF Strip(ls[i]) # <<>> THEN
        (IF ~StartsWith(ls[i], <<"#", " ">>) THEN <<Finding(i, MsgH1Missing, <<>>)>>
         ELSE IF Strip(ls[i]) = <<"#">> THEN <<Finding(i, MsgH1Empty, <<>>)>>
         ELSE <<>>)
        \o h1_scan_no_break(ls, i + 1)
    ELSE h1_scan_no_break(ls, i + 1)

validate_h1_title_no_break(ls) == h1_scan_no_break(ls, 1)

\* the errors validate_h1_title appends
validate_h1_title(ls) == h1_scan(ls, 1)

(* Check 2: validate_table_of_contents *)

\* re.IGNORECASE, on the letters of the heading
Lower(c) ==
    CASE c = "T" -> "t" [] c = "A" -> "a" [] c = "B" -> "b" [] c = "L" -> "l"
      [] c = "E" -> "e" [] c = "O" -> "o" [] c = "F" -> "f" [] c = "C" -> "c"
      [] c = "N" -> "n" [] c = "S" -> "s" [] OTHER -> c

TocHeading ==
    <<"#", "#", " ", "t", "a", "b", "l", "e", " ", "o", "f", " ",
      "c", "o", "n", "t", "e", "n", "t", "s">>

\* toc_pattern.match(line)
toc_match(line) ==
    /\ Len(line) >= Len(TocHeading)
    /\ \A k \in 1..Len(TocHeading) : Lower(line[k]) = TocHeading[k]

\* number of leading lines the table of contents is looked for in
TocWindow == 20

\* the warnings validate_table_of_contents appends
validate_table_of_contents(ls) ==
    LET has_toc == \E k \in 1..Min(TocWindow, Len(ls)) : toc_match(ls[k])
    IN  IF ~has_toc THEN <<Finding(0, MsgNoToc, <<>>)>> ELSE <<>>

(* Check 3: validate_headings_hierarchy *)

\* longest run of '#' the patterns accept
MaxHeadingLevel == 6

\* len(match.group(1)) for heading_pattern ^(#{1,6})\s+(.+), 0 without a match:
\* one to six '#', then whitespace, then at least one more character (which
\* may itself be whitespace, given back by \s+)
heading_level(line) ==
    LET h == LeadingIn(line, {"#"})
    IN  IF /\ h >= 1
           /\ h <= MaxHeadingLevel
           /\ Len(line) >= h + 2
           /\ line[h + 1] \in Whitespace
        THEN h ELSE 0

RECURSIVE hierarchy_scan(_, _, _)
hierarchy_scan(ls, i, previous_level) ==
    IF i > Len(ls) THEN <<>>
    ELSE LET current_level == heading_level(ls[i])
         IN  IF current_level > 0 THEN
                 (IF current_level > previous_level + 1 /\ previous_level > 0
                  THEN <<Finding(i, MsgLevelSkipped, <<previous_level, current_level>>)>>
                  ELSE <<>>)
                 \o hierarchy_scan(ls, i + 1, current_level)
             ELSE hierarchy_scan(ls, i + 1, previous_level)

\* validate_headings_hierarchy with previous_level left alone when it warns
RECURSIVE hierarchy_scan_keep(_, _, _)
hierarchy_scan_keep(ls, i, previous_level) ==
    IF i > Len(ls) THEN <<>>
    ELSE LET current_level == heading_level(ls[i])
         IN  IF current_level > 0 THEN
                 IF current_level > previous_level + 1 /\ previous_level > 0
                 THEN <<Finding(i, MsgLevelSkipped, <<previous_level, current_level>>)>>
                      \o hierarchy_scan_keep(ls, i + 1, previous_level)
                 ELSE hierarchy_scan_keep(ls, i + 1, current_level)
             ELSE hierarchy_scan_keep(ls, i + 1, previous_level)

validate_headings_hierarchy_keep(ls) == hierarchy_scan_keep(ls, 1, 0)

\* the warnings validate_headings_hierarchy appends
validate_headings_hierarchy(ls) == hierarchy_scan(ls, 1, 0)

(* Check 4: validate_code_blocks *)

\* the character U+0060, which a TLA+ string cannot hold
Backtick == "backtick"

Fence == <<Backtick, Backtick, Backtick>>

\* the for loop from line i on; code_block_start is the 0-based index the code
\* keeps; the result is what the method appends to errors and to warnings
RECURSIVE code_scan(_, _, _, _, _)
code_scan(ls, i, in_code_block, code_block_start, warns) ==
    IF i > Len(ls) THEN
        [errors   |-> IF in_code_block
                      THEN <<Finding(code_block_start + 1, MsgUnclosed, <<>>)>>
                      ELSE <<>>,
         warnings |-> warns]
    ELSE IF StartsWith(ls[i], Fence) THEN
        IF ~in_code_block THEN
            code_scan(ls, i + 1, TRUE, i - 1,
                      IF Strip(ls[i]) = Fence
                      THEN Append(warns, Finding(i, MsgNoLanguage, <<>>))
                      ELSE warns)
        ELSE code_scan(ls, i + 1, FALSE, code_block_start, warns)
    ELSE code_scan(ls, i + 1, in_code_block, code_block_start, warns)

\* validate_code_blocks with code_block_start set by the first opening fence only
RECURSIVE code_scan_first_start(_, _, _, _, _)
code_scan_first_start(ls, i, in_code_block, code_block_start, warns) ==
    IF i > Len(ls) THEN
        [errors   |-> IF in_code_block
                      THEN <<Finding(code_block_start + 1, MsgUnclosed, <<>>)>>
                      ELSE <<>>,
         warnings |-> warns]
    ELSE IF StartsWith(ls[i], Fence) THEN
        IF ~in_code_block THEN
            code_scan_first_start(ls, i + 1, TRUE,
                      IF code_block_start = -1 THEN i - 1 ELSE code_block_start,
                      IF Strip(ls[i]) = Fence
                      THEN Append(warns, Finding(i, MsgNoLanguage, <<>>))
                      ELSE warns)
        ELSE code_scan_first_start(ls, i + 1, FALSE, code_block_start, warns)
    ELSE code_scan_first_start(ls, i + 1, in_code_block, code_block_start, warns)

validate_code_blocks_first_start(ls) == code_scan_first_start(ls, 1, FALSE, -1, <<>>)

\* validate_code_blocks with the language test made on every fence line
RECURSIVE code_scan_any_fence(_, _, _, _, _)
code_scan_any_fence(ls, i, in_code_block, code_block_start, warns) ==
    IF i > Len(ls) THEN
        [errors   |-> IF in_code_block
                      THEN <<Finding(code_block_start + 1, MsgUnclosed, <<>>)>>
                      ELSE <<>>,
         warnings |-> warns]
    ELSE IF StartsWith(ls[i], Fence) THEN
        code_scan_any_fence(ls, i + 1, ~in_code_block,
                  IF ~in_code_block THEN i - 1 ELSE code_block_start,
                  IF Strip(ls[i]) = Fence
                  THEN Append(warns, Finding(i, MsgNoLanguage, <<>>))
                  ELSE warns)
    ELSE code_scan_any_fence(ls, i + 1, in_code_block, code_block_start, warns)

validate_code_blocks_any_fence(ls) == code_scan_any_fence(ls, 1, FALSE, -1, <<>>)

validate_code_blocks(ls) == code_scan(ls, 1, FALSE, -1, <<>>)

(* Check 5: validate_links *)

\* link_pattern tried at position p of line: a '[', then group 1, one or more
\* characters other than ']', then "](", then group 2, any characters other
\* than ')', then ')'.  Group 1 runs to the first ']' after p and group 2 to
\* the first ')' after the parenthesis
link_match_at(line, p) ==
    LET q == IndexFrom(line, "]", p + 1)
        r == IF q = 0 THEN 0 ELSE IndexFrom(line, ")", q + 2)
        ok == /\ p <= Len(line)
              /\ line[p] = "["
              /\ q # 0
              /\ q - p - 1 >= 1
              /\ q + 1 <= Len(line)
              /\ line[q + 1] = "("
              /\ r # 0
    IN  IF ok
        THEN [ok |-> TRUE, link_text |-> SubSeq(line, p + 1, q - 1),
              link_url |-> SubSeq(line, q + 2, r - 1), end |-> r]
        ELSE [ok |-> FALSE, link_text |-> <<>>, link_url |-> <<>>, end |-> 0]

\* link_pattern.finditer(line) from position p on, with the two tests made on
\* every match; i is the line number
RECURSIVE links_in_line(_, _, _)
links_in_line(line, i, p) ==
    IF p > Len(line) THEN <<>>
    ELSE LET m == link_match_at(line, p)
         IN  IF m.ok THEN
                 (IF m.link_text = <<>> THEN <<Finding(i, MsgEmptyLinkText, <<>>)>> ELSE <<>>)
                 \o (IF m.link_url = <<>> THEN <<Finding(i, MsgEmptyLinkUrl, <<>>)>> ELSE <<>>)
                 \o links_in_line(line, i, m.end + 1)
             ELSE links_in_line(line, i, p + 1)

RECURSIVE links_scan(_, _)
links_scan(ls, i) ==
    IF i > Len(ls) THEN <<>>
    ELSE links_in_line(ls[i], i, 1) \o links_scan(ls, i + 1)

\* the errors validate_links appends
validate_links(ls) == links_scan(ls, 1)

(* Check 6: validate_empty_headings *)

\* heading_pattern ^(#{1,6})\s*$ matches line
empty_heading_match(line) ==
    LET h == LeadingIn(line, {"#"})
    IN  /\ h >= 1
        /\ h <= MaxHeadingLevel
        /\ \A k \in (h + 1)..Len(line) : line[k] \in Whitespace

RECURSIVE empty_headings_scan(_, _)
empty_headings_scan(ls, i) ==
    IF i > Len(ls) THEN <<>>
    ELSE (IF empty_heading_match(ls[i])
          THEN <<Finding(i, MsgEmptyHeading, <<>>)>> ELSE <<>>)
         \o empty_headings_scan(ls, i + 1)

\* the errors validate_empty_headings appends
validate_empty_headings(ls) == empty_headings_scan(ls, 1)

(* Check 7: validate_trailing_whitespace *)

RECURSIVE trailing_scan(_, _)
trailing_scan(ls, i) ==
    IF i > Len(ls) THEN <<>>
    ELSE (IF ls[i] # RStrip(ls[i])
          THEN <<Finding(i, MsgTrailing, <<>>)>> ELSE <<>>)
         \o trailing_scan(ls, i + 1)

\* the warnings validate_trailing_whitespace appends
validate_trailing_whitespace(ls) == trailing_scan(ls, 1)

(* Check 8: validate_consecutive_blank_lines *)

\* blank lines in a row that are still accepted
MaxBlankRun == 2

RECURSIVE blank_scan(_, _, _)
blank_scan(ls, i, blank_count) ==
    IF i > Len(ls) THEN <<>>
    ELSE IF Strip(ls[i]) = <<>> THEN
        (IF blank_count + 1 > MaxBlankRun
         THEN <<Finding(i, MsgBlankLines, <<>>)>> ELSE <<>>)
        \o blank_scan(ls, i + 1, blank_count + 1)
    ELSE blank_scan(ls, i + 1, 0)

\* validate_consecutive_blank_lines without the reset of blank_count
RECURSIVE blank_scan_no_reset(_, _, _)
blank_scan_no_reset(ls, i, blank_count) ==
    IF i > Len(ls) THEN <<>>
    ELSE IF Strip(ls[i]) = <<>> THEN
        (IF blank_count + 1 > MaxBlankRun
         THEN <<Finding(i, MsgBlankLines, <<>>)>> ELSE <<>>)
        \o blank_scan_no_reset(ls, i + 1, blank_count + 1)
    ELSE blank_scan_no_reset(ls, i + 1, blank_count)

validate_consecutive_blank_lines_no_reset(ls) == blank_scan_no_reset(ls, 1, 0)

\* the warnings validate_consecutive_blank_lines appends
validate_consecutive_blank_lines(ls) == blank_scan(ls, 1, 0)

(* Check 9: validate_list_formatting *)

\* what \s+(.+) needs after a marker that ends at position e
marker_followed(line, e) ==
    /\ Len(line) >= e + 2
    /\ line[e + 1] \in Whitespace

\* unordered_pattern ^(\s*)([-*+])\s+(.+)
unordered_match(line) ==
    LET indent == LeadingIn(line, Whitespace)
    IN  /\ Len(line) >= indent + 1
        /\ line[indent + 1] \in {"-", "*", "+"}
        /\ marker_followed(line, indent + 1)

\* ordered_pattern ^(\s*)(\d+\.)\s+(.+)
ordered_match(line) ==
    LET indent == LeadingIn(line, Whitespace)
        d == LeadingIn(SubSeq(line, indent + 1, Len(line)), Digits)
    IN  /\ d >= 1
        /\ Len(line) >= indent + d + 1
        /\ line[indent + d + 1] = "."
        /\ marker_followed(line, indent + d + 1)

\* width of one level of list indentation
IndentUnit == 2

RECURSIVE list_scan(_, _)
list_scan(ls, i) ==
    IF i > Len(ls) THEN <<>>
    ELSE LET indent == LeadingIn(ls[i], Whitespace)
             odd == indent % IndentUnit # 0
         IN  (IF unordered_match(ls[i]) /\ odd
              THEN <<Finding(i, MsgListIndent, <<>>)>> ELSE <<>>)
             \o (IF ordered_match(ls[i]) /\ odd
                 THEN <<Finding(i, MsgListIndent, <<>>)>> ELSE <<>>)
             \o list_scan(ls, i + 1)

\* the warnings validate_list_formatting appends
validate_list_formatting(ls) == list_scan(ls, 1)

-----------------------------------------------------------------------------
(* read_file, validate, get_report *)

\* the classes an exception of class e is an instance of
Bases(e) ==
    CASE e = "FileNotFoundError"  -> {"FileNotFoundError", "OSError", "Exception"}
      [] e = "PermissionError"    -> {"PermissionError", "OSError", "Exception"}
      [] e = "UnicodeDecodeError" -> {"UnicodeDecodeError", "UnicodeError",
                                      "ValueError", "Exception"}

\* read_file with "except OSError" in place of "except Exception"
read_file_except_oserror(f, self_content, self_lines, self_errors) ==
    IF f.kind = "ok" THEN
        [ret |-> TRUE, raised |-> FALSE, content |-> f.text,
         lines |-> Split(f.text), errors |-> self_errors]
    ELSE IF "FileNotFoundError" \in Bases(f.kind) THEN
        [ret |-> FALSE, raised |-> FALSE, content |-> self_content,
         lines |-> self_lines,
         errors |-> Append(self_errors, Finding(0, MsgNotFound, <<>>))]
    ELSE IF "OSError" \in Bases(f.kind) THEN
        [ret |-> FALSE, raised |-> FALSE, content |-> self_content,
         lines |-> self_lines,
         errors |-> Append(self_errors, Finding(0, MsgReadError, <<>>))]
    ELSE
        [ret |-> FALSE, raised |-> TRUE, content |-> self_content,
         lines |-> self_lines, errors |-> self_errors]

\* read_file on a file in state f (kind "ok" with its text, or the class of
\* the exception that open()/read() raises): the value returned, the fields it
\* leaves behind, and whether the exception escaped both except clauses
read_file(f, self_content, self_lines, self_errors) ==
    IF f.kind = "ok" THEN
        [ret |-> TRUE, raised |-> FALSE, content |-> f.text,
         lines |-> Split(f.text), errors |-> self_errors]
    ELSE IF "FileNotFoundError" \in Bases(f.kind) THEN
        [ret |-> FALSE, raised |-> FALSE, content |-> self_content,
         lines |-> self_lines,
         errors |-> Append(self_errors, Finding(0, MsgNotFound, <<>>))]
    ELSE IF "Exception" \in Bases(f.kind) THEN
        [ret |-> FALSE, raised |-> FALSE, content |-> self_content,
         lines |-> self_lines,
         errors |-> Append(self_errors, Finding(0, MsgReadError, <<>>))]
    ELSE
        [ret |-> FALSE, raised |-> TRUE, content |-> self_content,
         lines |-> self_lines, errors |-> self_errors]

\* where validate() returns to
AfterValidate == IF caller = "validate_all_files" THEN "tally" ELSE "print"

\* validate(), "if not self.read_file(): return False"
Validate_read_file ==
    /\ pc = "read"
    /\ LET r == read_file(disk[file_path], content, lines, errors)
       IN  /\ content' = r.content
           /\ lines' = r.lines
           /\ errors' = r.errors
           /\ IF r.raised THEN
                  /\ pc' = "crashed"
                  /\ exit_code' = 1
                  /\ UNCHANGED is_valid
              ELSE IF ~r.ret THEN
                  /\ pc' = AfterValidate
                  /\ is_valid' = FALSE
                  /\ UNCHANGED exit_code
              ELSE
                  /\ pc' = "h1"
                  /\ UNCHANGED <<is_valid, exit_code>>
    /\ UNCHANGED <<disk, dir_exists, caller, file_path, warnings, md_files,
                   todo, validators, total_files, passed_files, failed_files,
                   summary, output>>

\* what a call of one check leaves alone
CheckFrame ==
    UNCHANGED <<disk, dir_exists, caller, file_path, content, lines, is_valid,
                output, batchVars>>

Call_validate_h1_title ==
    /\ pc = "h1"
    /\ errors' = errors \o validate_h1_title(lines)
    /\ pc' = "toc"
    /\ UNCHANGED warnings
    /\ CheckFrame

Call_validate_table_of_contents ==
    /\ pc = "toc"
    /\ warnings' = warnings \o validate_table_of_contents(lines)
    /\ pc' = "hier"
    /\ UNCHANGED errors
    /\ CheckFrame

Call_validate_headings_hierarchy ==
    /\ pc = "hier"
    /\ warnings' = warnings \o validate_headings_hierarchy(lines)
    /\ pc' = "code"
    /\ UNCHANGED errors
    /\ CheckFrame

Call_validate_code_blocks ==
    /\ pc = "code"
    /\ LET r == validate_code_blocks(lines)
       IN  /\ errors' = errors \o r.errors
           /\ warnings' = warnings \o r.warnings
    /\ pc' = "links"
    /\ CheckFrame

Call_validate_links ==
    /\ pc = "links"
    /\ errors' = errors \o validate_links(lines)
    /\ pc' = "empty"
    /\ UNCHANGED warnings
    /\ CheckFrame

Call_validate_empty_headings ==
    /\ pc = "empty"
    /\ errors' = errors \o validate_empty_headings(lines)
    /\ pc' = "trail"
    /\ UNCHANGED warnings
    /\ CheckFrame

Call_validate_trailing_whitespace ==
    /\ pc = "trail"
    /\ warnings' = warnings \o validate_trailing_whitespace(lines)
    /\ pc' = "blank"
    /\ UNCHANGED errors
    /\ CheckFrame

Call_validate_consecutive_blank_lines ==
    /\ pc = "blank"
    /\ warnings' = warnings \o validate_consecutive_blank_lines(lines)
    /\ pc' = "list"
    /\ UNCHANGED errors
    /\ CheckFrame

Call_validate_list_formatting ==
    /\ pc = "list"
    /\ warnings' = warnings \o validate_list_formatting(lines)
    /\ pc' = "ret"
    /\ UNCHANGED errors
    /\ CheckFrame

\* validate(), "return len(self.errors) == 0"
Validate_return ==
    /\ pc = "ret"
    /\ is_valid' = (Len(errors) = 0)
    /\ pc' = AfterValidate
    /\ UNCHANGED <<disk, dir_exists, caller, file_path, content, lines, errors,
                   warnings, output, batchVars>>

\* one thing printed: kind says which print statement, the rest what it shows
Printed(kind, name, status, errs, warns) ==
    [kind |-> kind, name |-> name, status |-> status, errors |-> errs,
     warnings |-> warns]

\* get_report with the status line failing on warnings too
get_report_warnings_fail(path, errs, warns) ==
    IF errs = <<>> /\ warns = <<>>
    THEN Printed("report", path, "PASSED", <<>>, <<>>)
    ELSE Printed("report", path, "FAILED", errs, warns)

\* get_report(): the status line, and the ERRORS / WARNINGS blocks it lists
\* (an empty list has no block)
get_report(path, errs, warns) ==
    IF errs = <<>> /\ warns = <<>>
    THEN Printed("report", path, "PASSED", <<>>, <<>>)
    ELSE Printed("report", path,
                 IF errs # <<>> THEN "FAILED" ELSE "PASSED (with warnings)",
                 errs, warns)

\* validate_single_file, after validate() has returned
Single_print_report ==
    /\ pc = "print"
    /\ output' = Append(output, get_report(file_path, errors, warnings))
    /\ pc' = "done"
    /\ UNCHANGED <<disk, dir_exists, caller, file_path, content, lines, errors,
                   warnings, is_valid, batchVars>>

-----------------------------------------------------------------------------
(* validate_all_files and the --all branch of main *)

\* s with x put in before the first element that is not below it
RECURSIVE Insert(_, _)
Insert(s, x) ==
    IF s = <<>> THEN <<x>>
    ELSE IF StrLess(x, Head(s)) THEN <<x>> \o s
    ELSE <<Head(s)>> \o Insert(Tail(s), x)

\* the loop going through md_files as glob listed them
sorted_left_as_is(s) == s

\* sorted(md_files): ascending by <, equal elements in their original order
RECURSIVE sorted(_)
sorted(s) ==
    IF s = <<>> THEN <<>>
    ELSE Insert(sorted(SubSeq(s, 1, Len(s) - 1)), s[Len(s)])

\* the orders in which glob may list the files named in S
Listings(S) ==
    {f \in [1..Cardinality(S) -> S] : \A a, b \in DOMAIN f : a # b => f[a] # f[b]}

\* main(), args.all: the directory test
Main_all ==
    /\ pc = "main"
    /\ IF ~dir_exists THEN
           /\ output' = Append(output, Printed("no directory", <<>>, "", <<>>, <<>>))
           /\ exit_code' = 1
           /\ pc' = "exited"
       ELSE
           /\ pc' = "glob"
           /\ UNCHANGED <<output, exit_code>>
    /\ UNCHANGED <<disk, dir_exists, caller, file_path, content, lines, errors,
                   warnings, is_valid, md_files, todo, validators, total_files,
                   passed_files, failed_files, summary>>

\* validate_all_files up to the for loop
All_glob ==
    /\ pc = "glob"
    /\ \E listing \in Listings(DOMAIN disk) :
          /\ md_files' = listing
          /\ IF listing = <<>> THEN
                 /\ output' = Append(output, Printed("no files", <<>>, "", <<>>, <<>>))
                 /\ summary' = <<0, 0, 0>>
                 /\ pc' = "sysexit"
                 /\ UNCHANGED <<total_files, passed_files, failed_files, todo>>
             ELSE
                 /\ total_files' = Len(listing)
                 /\ passed_files' = 0
                 /\ failed_files' = 0
                 /\ output' = Append(output, Printed("validating", <<>>, "", <<>>, <<>>))
                 /\ todo' = sorted(listing)
                 /\ pc' = "loop"
                 /\ UNCHANGED summary
    /\ UNCHANGED <<disk, dir_exists, caller, file_path, content, lines, errors,
                   warnings, is_valid, validators, exit_code>>

\* the for loop takes the next file: validator = MarkdownValidator(md_file)
All_next_file ==
    /\ pc = "loop"
    /\ todo # <<>>
    /\ file_path' = Head(todo)
    /\ todo' = Tail(todo)
    /\ content' = <<>>
    /\ lines' = <<>>
    /\ errors' = <<>>
    /\ warnings' = <<>>
    /\ is_valid' = "none"
    /\ pc' = "read"
    /\ UNCHANGED <<disk, dir_exists, caller, md_files, validators, total_files,
                   passed_files, failed_files, summary, output, exit_code>>

\* the body of the for loop after validate() has returned
All_tally ==
    /\ pc = "tally"
    /\ IF is_valid THEN
           /\ passed_files' = passed_files + 1
           /\ output' = Append(output, Printed("file", file_path, "PASSED", <<>>, <<>>))
           /\ UNCHANGED failed_files
       ELSE
           /\ failed_files' = failed_files + 1
           /\ output' = output \o <<Printed("file", file_path, "FAILED", <<>>, <<>>),
                                    get_report(file_path, errors, warnings)>>
           /\ UNCHANGED passed_files
    /\ validators' = Append(validators,
                            [file_path |-> file_path, errors |-> errors,
                             warnings |-> warnings])
    /\ pc' = "loop"
    /\ UNCHANGED <<disk, dir_exists, caller, file_path, content, lines, errors,
                   warnings, is_valid, md_files, todo, total_files, summary,
                   exit_code>>

\* validate_all_files after the for loop
All_summary ==
    /\ pc = "loop"
    /\ todo = <<>>
    /\ output' = Append(output, Printed("summary", <<>>, "", <<>>, <<>>))
    /\ summary' = <<total_files, passed_files, failed_files>>
    /\ pc' = "sysexit"
    /\ UNCHANGED <<disk, dir_exists, caller, file_path, content, lines, errors,
                   warnings, is_valid, md_files, todo, validators, total_files,
                   passed_files, failed_files, exit_code>>

\* main(), "sys.exit(0 if failed == 0 else 1)"
Main_all_exit ==
    /\ pc = "sysexit"
    /\ exit_code' = IF summary[3] = 0 THEN 0 ELSE 1
    /\ pc' = "exited"
    /\ UNCHANGED <<disk, dir_exists, caller, file_path, content, lines, errors,
                   warnings, is_valid, md_files, todo, validators, total_files,
                   passed_files, failed_files, summary, output>>

-----------------------------------------------------------------------------
(* Documents and directories the model is run on *)

\* the documents of at most n lines whose lines come from pool
DocsOver(pool, n) == UNION {[1..k -> pool] : k \in 1..n}

\* the states a file may be in when it is opened
FileOf(doc) == [kind |-> "ok", text |-> Join(doc)]

Unreadable ==
    {[kind |-> k, text |-> <<>>] :
        k \in {"FileNotFoundError", "PermissionError", "UnicodeDecodeError"}}

TitlePool ==
    { <<>>, <<" ">>, <<"#">>, <<"#", " ">>, <<"#", "\t">>, <<"#", "#">>,
      <<" ", "#">>, <<"#", " ", "a">>, <<"#", "#", " ", "a">>, <<"a">> }

HeadingPool ==
    { <<"#", " ", "a">>, <<"#", "#", " ", "a">>, <<"#", "#", "#", " ", "a">>,
      <<"#", "#", "#", "#", "\t", "a">>, <<"#", " ", " ">>, <<"#", "a">>,
      <<"a">> }

FencePool ==
    { Fence, Fence \o <<"a">>, Fence \o <<" ">>, <<" ">> \o Fence, <<"a">> }

LinkPool ==
    { <<"[", "a", "]", "(", "u", ")">>, <<"[", "]", "(", "u", ")">>,
      <<"[", "a", "]", "(", ")">>, <<"[", "]", "(", ")">>,
      <<"[", "a", "]", "(", ")", "[", "]", "(", "u", ")">>,
      <<"[", "[", "]", "(", ")">>, <<"a">> }

BlankPool == { <<>>, <<" ">>, <<"\t", " ">>, <<"a">> }

MixedPool ==
    { <<"#", " ", "a">>,
      <<"#", "#", " ", "T", "a", "b", "l", "e", " ", "o", "f", " ",
        "C", "o", "n", "t", "e", "n", "t", "s">>,
      <<"a", " ">>, <<" ", "-", " ", "a">>, <<" ", "1", "0", ".", " ", "a">>,
      <<"[", "a", "]", "(", ")">>, Fence }

\* the name validate_single_file is given
DocName == <<"a", ".", "m", "d">>

\* the state when validate_single_file calls validate() on a new validator,
\* the file being in one of the states fs
InitSingle(fs) ==
    /\ \E f \in fs : disk = [n \in {DocName} |-> f]
    /\ dir_exists = TRUE
    /\ caller = "validate_single_file"
    /\ pc = "read"
    /\ file_path = DocName
    /\ content = <<>>
    /\ lines = <<>>
    /\ errors = <<>>
    /\ warnings = <<>>
    /\ is_valid = "none"
    /\ md_files = <<>>
    /\ todo = <<>>
    /\ validators = <<>>
    /\ total_files = 0
    /\ passed_files = 0
    /\ failed_files = 0
    /\ summary = "none"
    /\ output = <<>>
    /\ exit_code = "none"

FilesOver(pool, n) == {FileOf(d) : d \in DocsOver(pool, n)} \cup Unreadable

Init == InitSingle(FilesOver(MixedPool, MaxLines))

InitTitle == InitSingle(FilesOver(TitlePool, MaxLines))

InitHeading == InitSingle(FilesOver(HeadingPool, MaxLines))

InitLink == InitSingle(FilesOver(LinkPool, MaxLines))

InitFence == InitSingle(FilesOver(FencePool, MaxFenceLines))

InitBlank == InitSingle(FilesOver(BlankPool, MaxBlankLines))

\* names of files of the cheatsheets directory
FileNames ==
    { <<"a", ".", "m", "d">>, <<"a", "b", ".", "m", "d">>,
      <<"a", "-", ".", "m", "d">>, <<"B", ".", "m", "d">> }

\* states of a file of the directory: one that passes (with a warning), one
\* that fails, one that is gone when opened, one that cannot be decoded
BatchFiles ==
    { FileOf(<< <<"#", " ", "a">> >>), FileOf(<< <<"a">> >>),
      [kind |-> "FileNotFoundError", text |-> <<>>],
      [kind |-> "UnicodeDecodeError", text |-> <<>>] }

\* the state when main() takes the args.all branch
InitAll ==
    /\ \E S \in SUBSET FileNames :
          /\ Cardinality(S) <= MaxFiles
          /\ disk \in [S -> BatchFiles]
    /\ dir_exists \in BOOLEAN
    /\ caller = "validate_all_files"
    /\ pc = "main"
    /\ file_path = <<>>
    /\ content = <<>>
    /\ lines = <<>>
    /\ errors = <<>>
    /\ warnings = <<>>
    /\ is_valid = "none"
    /\ md_files = <<>>
    /\ todo = <<>>
    /\ validators = <<>>
    /\ total_files = 0
    /\ passed_files = 0
    /\ failed_files = 0
    /\ summary = "none"
    /\ output = <<>>
    /\ exit_code = "none"

\* validate_single_file
Next ==
    \/ Validate_read_file
    \/ Call_validate_h1_title
    \/ Call_validate_table_of_contents
    \/ Call_validate_headings_hierarchy
    \/ Call_validate_code_blocks
    \/ Call_validate_links
    \/ Call_validate_empty_headings
    \/ Call_validate_trailing_whitespace
    \/ Call_validate_consecutive_blank_lines
    \/ Call_validate_list_formatting
    \/ Validate_return
    \/ Single_print_report

\* main() with --all
NextAll ==
    \/ Main_all
    \/ All_glob
    \/ All_next_file
    \/ Validate_read_file
    \/ Call_validate_h1_title
    \/ Call_validate_table_of_contents
    \/ Call_validate_headings_hierarchy
    \/ Call_validate_code_blocks
    \/ Call_validate_links
    \/ Call_validate_empty_headings
    \/ Call_validate_trailing_whitespace
    \/ Call_validate_consecutive_blank_lines
    \/ Call_validate_list_formatting
    \/ Validate_return
    \/ All_tally
    \/ All_summary
    \/ Main_all_exit

Spec == Init /\ [][Next]_vars

SpecTitle == InitTitle /\ [][Next]_vars

SpecHeading == InitHeading /\ [][Next]_vars

SpecLink == InitLink /\ [][Next]_vars

SpecFence == InitFence /\ [][Next]_vars

SpecBlank == InitBlank /\ [][Next]_vars

SpecAll == InitAll /\ [][NextAll]_vars

-----------------------------------------------------------------------------
(* Properties *)

\* the positions validate_single_file goes through, in order
Phases ==
    <<"read", "h1", "toc", "hier", "code", "links", "empty", "trail", "blank",
      "list", "ret", "print", "done">>

PhaseIndex(p) == CHOOSE k \in 1..Len(Phases) : Phases[k] = p

\* the file was read and the check called at position p has returned
HasRun(p) ==
    /\ disk[file_path].kind = "ok"
    /\ PhaseIndex(pc) > PhaseIndex(p)

LineNumbers == 1..Len(lines)

MaxOf(S) == CHOOSE x \in S : \A y \in S : y <= x

\* line n holds nothing but whitespace
Blank(n) == \A k \in 1..Len(lines[n]) : lines[n][k] \in Whitespace

\* line n is the first line that is not blank
FirstNonBlank(n) == ~Blank(n) /\ \A j \in 1..(n - 1) : Blank(j)

\* line n is h '#' characters followed by nothing but whitespace
HashesOnly(n, h) ==
    /\ Len(lines[n]) >= h
    /\ \A k \in 1..h : lines[n][k] = "#"
    /\ \A k \in (h + 1)..Len(lines[n]) : lines[n][k] \in Whitespace

\* the title check reported line n
TitleErrorAt(n) ==
    CountAt(errors, MsgH1Missing, n) + CountAt(errors, MsgH1Empty, n) >= 1

\* [text](url) stands in line at p (the '['), q (the ']') and r (the ')')
LinkAt(line, p, q, r) ==
    /\ p < q /\ q + 1 < r /\ r <= Len(line)
    /\ line[p] = "[" /\ line[q] = "]" /\ line[q + 1] = "(" /\ line[r] = ")"
    /\ \A k \in (p + 1)..(q - 1) : line[k] # "]"
    /\ \A k \in (q + 2)..(r - 1) : line[k] # ")"

HasLinkWithEmptyText(line) ==
    \E p, q, r \in 1..Len(line) : LinkAt(line, p, q, r) /\ q = p + 1

HasLinkWithEmptyUrl(line) ==
    \E p, q, r \in 1..Len(line) : LinkAt(line, p, q, r) /\ r = q + 2

\* C1: once validate_links has run, every line holding a link [text](url)
\* with empty text carries an "Empty link text" error and every line holding
\* one with an empty url carries an "Empty link URL" error
C1_EmptyLinkPartsReported ==
    HasRun("links") =>
        \A n \in LineNumbers :
            /\ HasLinkWithEmptyText(lines[n]) =>
                   CountAt(errors, MsgEmptyLinkText, n) >= 1
            /\ HasLinkWithEmptyUrl(lines[n]) =>
                   CountAt(errors, MsgEmptyLinkUrl, n) >= 1

\* C2: once validate_h1_title has run, a first non-blank line that is '#'
\* after trimming carries the error "H1 title is empty" and not the error
\* "File should start with H1 title"
C2_BareHashIsEmptyTitle ==
    HasRun("h1") =>
        \A n \in LineNumbers :
            (FirstNonBlank(n) /\ Strip(lines[n]) = <<"#">>) =>
                /\ CountAt(errors, MsgH1Empty, n) = 1
                /\ CountAt(errors, MsgH1Missing, n) = 0

\* line n is the first line that begins with '#'
FirstHeadingLine(n) ==
    /\ Len(lines[n]) >= 1 /\ lines[n][1] = "#"
    /\ \A j \in 1..(n - 1) : Len(lines[j]) = 0 \/ lines[j][1] # "#"

BothTitleAndEmptyHeadingAt(n) ==
    TitleErrorAt(n) /\ CountAt(errors, MsgEmptyHeading, n) >= 1

\* C3 as stated: once validate_empty_headings has run, a line reported by both
\* the title check and the empty-heading check is the first heading line and
\* is a single '#' followed by nothing but whitespace
C3_DoubleFireOnlyOnBareHash ==
    HasRun("empty") =>
        \A n \in LineNumbers :
            BothTitleAndEmptyHeadingAt(n) =>
                FirstHeadingLine(n) /\ HashesOnly(n, 1)

\* C3 amended: once validate_empty_headings has run, a line reported by both
\* the title check and the empty-heading check is the first non-blank line of
\* the document and is one to six '#' followed by nothing but whitespace
C3_DoubleFireOnlyOnFirstEmptyHeading ==
    HasRun("empty") =>
        \A n \in LineNumbers :
            BothTitleAndEmptyHeadingAt(n) =>
                /\ FirstNonBlank(n)
                /\ \E h \in 1..MaxHeadingLevel : HashesOnly(n, h)

\* a first line "##" reported by both checks, with more lines after it
C3_Witness ==
    /\ HasRun("empty")
    /\ Len(lines) >= 2
    /\ FirstNonBlank(1)
    /\ HashesOnly(1, 2)
    /\ BothTitleAndEmptyHeadingAt(1)
    /\ \E n \in 2..Len(lines) : CountAt(errors, MsgEmptyHeading, n) >= 1

FenceLines == {n \in LineNumbers : StartsWith(lines[n], Fence)}

\* C4: once validate_code_blocks has run, there is no "Unclosed code block"
\* error when the number of lines starting with three backticks is even, and
\* exactly one, at the last such line, when it is odd
C4_UnclosedIffOddFences ==
    HasRun("code") =>
        LinesOf(errors, MsgUnclosed) =
            IF Cardinality(FenceLines) % 2 = 0 THEN <<>>
            ELSE <<MaxOf(FenceLines)>>

\* three fence lines, the error at the third
C4_Witness ==
    /\ HasRun("code")
    /\ Cardinality(FenceLines) = 3
    /\ LinesOf(errors, MsgUnclosed) = <<MaxOf(FenceLines)>>

\* line n begins with the fence and holds nothing else but whitespace
BareFence(n) ==
    /\ n \in FenceLines
    /\ \A k \in (Len(Fence) + 1)..Len(lines[n]) : lines[n][k] \in Whitespace

\* line n opens a block: an even number of fence lines come before it
OpensBlock(n) ==
    n \in FenceLines /\ Cardinality({j \in FenceLines : j < n}) % 2 = 0

BlankRun(s, e) ==
    /\ s <= e
    /\ \A k \in s..e : Blank(k)
    /\ s = 1 \/ ~Blank(s - 1)
    /\ e = Len(lines) \/ ~Blank(e + 1)

\* C5: once validate_consecutive_blank_lines has run, every maximal run of k
\* blank lines carries max(0, k - 2) "More than 2 consecutive blank lines"
\* warnings, one at each line of the run from its third on, and no other line
\* carries one
C5_WarningsPerBlankRun ==
    HasRun("blank") =>
        /\ \A s, e \in LineNumbers :
               BlankRun(s, e) =>
                   /\ \A k \in s..e :
                          CountAt(warnings, MsgBlankLines, k) =
                              IF k >= s + MaxBlankRun THEN 1 ELSE 0
                   /\ Cardinality({k \in 1..Len(warnings) :
                                      /\ warnings[k].msg = MsgBlankLines
                                      /\ warnings[k].line \in s..e})
                          = IF e - s + 1 > MaxBlankRun
                            THEN e - s + 1 - MaxBlankRun ELSE 0
        /\ \A k \in 1..Len(warnings) :
               warnings[k].msg = MsgBlankLines =>
                   warnings[k].line \in LineNumbers /\ Blank(warnings[k].line)

\* three blank lines, content, and a blank line again: one warning, at line 3
C5_Witness ==
    /\ HasRun("blank")
    /\ Len(lines) = 5
    /\ BlankRun(1, 3)
    /\ BlankRun(5, 5)
    /\ LinesOf(warnings, MsgBlankLines) = <<3>>

\* C6: when validate_single_file is done, the value validate() returned is
\* true exactly when there are no errors, whatever the warnings; it is false
\* with an error present when the file could not be read; and the status line
\* of the report is "FAILED" exactly when it is false
C6_PassedIffNoErrors ==
    pc = "done" =>
        /\ is_valid \in BOOLEAN
        /\ is_valid <=> (errors = <<>>)
        /\ disk[file_path].kind # "ok" => (~is_valid /\ errors # <<>>)
        /\ output[Len(output)].kind = "report"
        /\ (output[Len(output)].status = "FAILED") <=> ~is_valid

\* a document that passed with warnings
C6_Witness ==
    /\ pc = "done"
    /\ is_valid = TRUE
    /\ warnings # <<>>
    /\ output[Len(output)].status = "PASSED (with warnings)"

\* the validator of a file that could not be read
FailedRead(v) == disk[v.file_path].kind # "ok"

\* C7: in a batch run, a read that fails takes validate() straight to its
\* return with exactly one error, no warning and the result false, no
\* exception ends the run, and when the run exits every file of the directory
\* has been validated
C7_ReadFailureIsolated ==
    /\ [][(pc = "read" /\ disk[file_path].kind # "ok") =>
              /\ pc' = "tally"
              /\ Len(errors') = 1
              /\ warnings' = <<>>
              /\ lines' = <<>>
              /\ is_valid' = FALSE]_vars
    /\ [](pc # "crashed")
    /\ []((pc = "exited" /\ dir_exists) =>
              /\ Len(validators) = Cardinality(DOMAIN disk)
              /\ {validators[k].file_path : k \in 1..Len(validators)} = DOMAIN disk
              /\ \A k \in 1..Len(validators) :
                     FailedRead(validators[k]) =>
                         /\ Len(validators[k].errors) = 1
                         /\ validators[k].warnings = <<>>)

\* a run that has exited after a file that could not be decoded and a file
\* that was gone were followed by a file that was read
C7_Witness ==
    /\ pc = "exited"
    /\ Len(validators) = 3
    /\ disk[validators[1].file_path].kind = "UnicodeDecodeError"
    /\ disk[validators[2].file_path].kind = "FileNotFoundError"
    /\ disk[validators[3].file_path].kind = "ok"
    /\ validators[3].warnings # <<>>

\* C8: when a batch run has exited, the files were validated once each in
\* ascending order of name, the summary is (total, passed, failed) with
\* total = passed + failed the number of files and failed the number of files
\* with an error, and the exit status is 0 exactly when failed is 0; with no
\* file the summary is (0, 0, 0), "no files" was printed and the status is 0
C8_BatchSummary ==
    (pc = "exited" /\ dir_exists) =>
        LET n == Len(validators)
            failed == Cardinality({k \in 1..n : validators[k].errors # <<>>})
        IN  /\ n = Cardinality(DOMAIN disk)
            /\ {validators[k].file_path : k \in 1..n} = DOMAIN disk
            /\ \A a, b \in 1..n :
                   a < b => StrLess(validators[a].file_path, validators[b].file_path)
            /\ summary = <<n, n - failed, failed>>
            /\ summary[1] = summary[2] + summary[3]
            /\ (exit_code = 0) <=> (summary[3] = 0)
            /\ exit_code \in {0, 1}
            /\ DOMAIN disk = {} =>
                   /\ summary = <<0, 0, 0>>
                   /\ exit_code = 0
                   /\ \E k \in 1..Len(output) : output[k].kind = "no files"
            /\ DOMAIN disk # {} =>
                   \A k \in 1..Len(output) : output[k].kind # "no files"

\* three files that glob listed in another order than the loop took them,
\* one of them failing
C8_Witness ==
    /\ pc = "exited"
    /\ Len(validators) = 3
    /\ md_files # [k \in 1..3 |-> validators[k].file_path]
    /\ summary = <<3, 2, 1>>
    /\ exit_code = 1

\* the last heading line before line n, 0 when there is none
PreviousHeading(n) ==
    LET before == {j \in 1..(n - 1) : heading_level(lines[j]) > 0}
    IN  IF before = {} THEN 0 ELSE MaxOf(before)

\* line n is a heading more than one level below the heading before it
SkipsLevel(n) ==
    /\ heading_level(lines[n]) > 0
    /\ PreviousHeading(n) # 0
    /\ heading_level(lines[n]) > heading_level(lines[PreviousHeading(n)]) + 1

\* C9: once validate_headings_hierarchy has run, the "Heading level skipped"
\* warnings stand, once each, at exactly the heading lines that have a heading
\* before them and lie more than one level below the nearest one, and each
\* names the level of that heading and its own
C9_SkipMeasuredAgainstPreviousHeading ==
    HasRun("hier") =>
        /\ \A n \in LineNumbers :
               CountAt(warnings, MsgLevelSkipped, n) = IF SkipsLevel(n) THEN 1 ELSE 0
        /\ \A k \in 1..Len(warnings) :
               warnings[k].msg = MsgLevelSkipped =>
                   /\ warnings[k].line \in LineNumbers
                   /\ warnings[k].arg =
                          <<heading_level(lines[PreviousHeading(warnings[k].line)]),
                            heading_level(lines[warnings[k].line])>>

\* H1, H3, H4: the H3 is warned about, the H4 after it is not
C9_Witness ==
    /\ HasRun("hier")
    /\ Len(lines) = 3
    /\ heading_level(lines[1]) = 1
    /\ heading_level(lines[2]) = 3
    /\ heading_level(lines[3]) = 4
    /\ LinesOf(warnings, MsgLevelSkipped) = <<2>>

====
